---- MODULE Spec2Model ----
(***************************************************************************)
(* Follow-up dispatch handlers of the controller (reviewCode, documentCode, *)
(* executeCustomDirection) as asynchronous state machines over the task     *)
(* runtime they call.  A dispatch is one invocation of a handler; it runs   *)
(* synchronously up to each awaited call, and resumes when that call        *)
(* returns or throws.                                                       *)
(*                                                                         *)
(* Text is a sequence of fragments: a template literal is the concatenation *)
(* of its fragments, the empty string is << >>.  An optional string         *)
(* (string | undefined) is a record [def, s].                               *)
(*                                                                         *)
(* SpecAccount is the account service (ClineAccountService: the RPCs over   *)
(* authenticatedRequest) with the auth provider it takes its token from     *)
(* (FirebaseAuthProvider: getAuthToken, signOut).                           *)
(***************************************************************************)
EXTENDS Integers, Sequences, FiniteSets, TLC

\* ------------------------------------------------------------------ bounds
NumProcs == 2
MaxDispatches == 2
MaxDiffLen == 2
MaxPromptLen == 2
MaxLog == 3
MaxGetInstance == 3
MaxSelections == 2

Procs == 1..NumProcs
NoTask == 0
TaskIds == 1..(MaxDispatches + 1)

\* ------------------------------------------------------------------ values
SeqsUpTo(S, n) == UNION {[1..k -> S] : k \in 0..n}

Undefined == [def |-> FALSE, s |-> << >>]
Str(s) == [def |-> TRUE, s |-> s]
\* JavaScript truthiness of a string | undefined value
Truthy(v) == v.def /\ v.s # << >>

DiffLines == {"-old line", "+new line"}
DiffValues == {Undefined} \cup {Str(s) : s \in SeqsUpTo(DiffLines, MaxDiffLen)}

PromptFragments == {"Generate unit tests", "Review the code changes.\n\n"}
RequestValues == {Undefined} \cup {Str(s) : s \in SeqsUpTo(PromptFragments, MaxPromptLen)}

\* thrown values: an Error object (String(e) = "Error: " + message) or a bare string
Err(m) == [isError |-> TRUE, message |-> m, str |-> "Error: " \o m]
Thrown == {Err("checkpoint store failed"), [isError |-> FALSE, message |-> "", str |-> "aborted"]}
TypeErr == Err("Cannot read properties of undefined")
NoErr == [isError |-> FALSE, message |-> "", str |-> ""]

\* A ClineMessage of the task's log: the fields the handlers read.
SayEntry(tag, h) == [type |-> "say", say |-> tag, ask |-> "undefined", lastCheckpointHash |-> h]
AskEntry(tag, h) == [type |-> "ask", say |-> "undefined", ask |-> tag, lastCheckpointHash |-> h]
NoHash == "undefined"
Hashes == {NoHash, "h0"}
LogEntries ==
    {SayEntry(t, h) : t \in {"completion_result", "checkpoint_created"}, h \in Hashes}
        \cup {AskEntry("completion_result", h) : h \in Hashes}
        \cup {SayEntry("text", NoHash)}

\* ------------------------------------------------------------------ state
VARIABLES
    task,           \* controller.task: NoTask or the id of the active task
    clineMessages,  \* the message log of every task
    nextTaskId,     \* id the next task created by initTask gets
    ndispatch,      \* dispatches started so far
    handler,        \* per dispatch slot: the handler running in it
    pc,             \* per slot: "idle", the awaited call's label, or "done"
    locals,         \* per slot: request.value and the handler's constants
    calls,          \* per slot: the runtime calls the dispatch has issued
    rets,           \* per slot: the outcomes of the calls that completed
    result,         \* per slot: pending, the Empty response, or the rejection
    entryTask,      \* per slot: controller.task as the handler found it on entry
    account,        \* ClineAccountService: the RPC call in progress and its requests
    auth,           \* FirebaseAuthProvider: the current user and the sign-out in progress
    service,        \* ClineAccountService.instance and the getInstance calls made
    ui              \* CompletionDirectionButtons: its state, props and callback calls

vars ==
    <<task, clineMessages, nextTaskId, ndispatch, handler, pc, locals, calls, rets, result, entryTask,
      account, auth, service, ui>>
\* the state of the follow-up handlers, and of the account service and auth provider
dispatcherVars ==
    <<task, clineMessages, nextTaskId, ndispatch, handler, pc, locals, calls, rets, result, entryTask>>
accountVars == <<account, auth, service>>

Pending == [k |-> "pending", err |-> NoErr]
Empty == [k |-> "Empty", err |-> NoErr]
Rejected(e) == [k |-> "rejected", err |-> e]

\* ------------------------------------------------------- handler commands
\* What a handler does when it resumes: await a call, return, or throw.
AwaitTask(op, text, next, inTry, loc) ==
    [k |-> "call", on |-> "task", op |-> op, text |-> text, images |-> << >>,
     next |-> next, try |-> inTry, err |-> NoErr, loc |-> loc]
\* variant: the prompt delivered with say on the current task
AwaitInitTaskViaSay(prompt, images, next, inTry, loc) ==
    [k |-> "call", on |-> "task", op |-> "say", text |-> prompt, images |-> images,
     next |-> next, try |-> inTry, err |-> NoErr, loc |-> loc]

AwaitInitTask(prompt, images, next, inTry, loc) ==
    [k |-> "call", on |-> "controller", op |-> "initTask", text |-> prompt, images |-> images,
     next |-> next, try |-> inTry, err |-> NoErr, loc |-> loc]
Return(loc) ==
    [k |-> "return", on |-> "none", op |-> "none", text |-> << >>, images |-> << >>,
     next |-> "done", try |-> FALSE, err |-> NoErr, loc |-> loc]
Throw(e, inTry, loc) ==
    [k |-> "throw", on |-> "none", op |-> "none", text |-> << >>, images |-> << >>,
     next |-> "done", try |-> inTry, err |-> e, loc |-> loc]

\* `Error analyzing code changes: ${error instanceof Error ? error.message : String(error)}`
ErrorText(e) == <<"Error analyzing code changes: ", IF e.isError THEN e.message ELSE e.str>>

\* ------------------------------------------------- reviewCode (diff-based)
FallbackSentence ==
    "No textual diff to show, but changes were detected. Please analyze the current state of the relevant files.\n\n"
DiffIntro == "The following code changes were made:\n"
\* the Markdown code fence: ~~~ stands for the three backquotes of the source,
\* a character SANY's strings do not admit
FenceOpen == "~~~diff\n"
FenceClose == "\n~~~\n\n"
ReviewInstructions ==
    "Review the code changes.\n\nFocus on:\n1. Potential bugs or logic errors\n2. Type safety issues\n3. Missing error handling\n4. Performance concerns\n5. Security vulnerabilities\n\nReference other code files as needed for context, using the read_file tool or targeted grep commands."
DocumentInstructions ==
    "Generate documentation for the code changes.\n\nCreate clear, concise comments and documentation that explains:\n1. Purpose of the new code\n2. How it integrates with existing functionality\n3. Key components and their responsibilities\n4. Usage examples where appropriate\n5. Any important considerations or limitations\n\nReference other code files as needed for context, using the read_file tool or targeted grep commands."

\* variant: tests diffContent !== undefined instead of its truthiness
reviewPromptDefinedOnly(diffContent) ==
    <<"Analyzing code changes since last completion...\n\n">>
        \o (IF diffContent.def
              THEN <<DiffIntro, FenceOpen>> \o diffContent.s \o <<FenceClose>>
              ELSE <<FallbackSentence>>)
        \o <<ReviewInstructions>>

reviewPrompt(diffContent) ==
    <<"Analyzing code changes since last completion...\n\n">>
        \o (IF Truthy(diffContent)
              THEN <<DiffIntro, FenceOpen>> \o diffContent.s \o <<FenceClose>>
              ELSE <<FallbackSentence>>)
        \o <<ReviewInstructions>>

\* variant: the condition on the change predicate inverted
reviewCodeInverted(at, r, loc, ctl) ==
    CASE at = "entry" ->
            IF ctl.task = NoTask
              THEN Throw(Err("No active task"), FALSE, loc)
              ELSE AwaitTask("doesLatestTaskCompletionHaveNewChanges", << >>, "pred", TRUE, loc)
      [] at = "pred" ->
            IF r.out = "throw" THEN Throw(r.err, TRUE, loc)
            ELSE IF ~r.val
              THEN AwaitTask("presentMultifileDiff", << >>, "present", TRUE, loc)
              ELSE AwaitTask("say", <<"No significant changes found to review.">>, "sayNoChanges", TRUE, loc)
      [] at = "present" ->
            IF r.out = "throw" THEN Throw(r.err, TRUE, loc)
            ELSE AwaitTask("getDiffSinceLastCompletion", << >>, "getDiff", TRUE, loc)
      [] at = "getDiff" ->
            IF r.out = "throw" THEN Throw(r.err, TRUE, loc)
            ELSE AwaitTask("say", <<"Reviewing code changes...">>, "sayProgress", TRUE,
                           [loc EXCEPT !.diffContent = r.val])
      [] at = "sayProgress" ->
            IF r.out = "throw" THEN Throw(r.err, TRUE, loc)
            ELSE AwaitInitTask(reviewPrompt(loc.diffContent), << >>, "initTask", TRUE, loc)
      [] at = "initTask" ->
            IF r.out = "throw" THEN Throw(r.err, TRUE, loc) ELSE Return(loc)
      [] at = "sayNoChanges" ->
            IF r.out = "throw" THEN Throw(r.err, TRUE, loc) ELSE Return(loc)
      [] at = "catch" ->
            AwaitTask("say", ErrorText(r.err), "sayError", FALSE, loc)
      [] at = "sayError" ->
            IF r.out = "throw" THEN Throw(r.err, FALSE, loc) ELSE Return(loc)

\* variant: a failing diff retrieval is passed over, the prompt gets the fallback
reviewCodeDiffOptional(at, r, loc, ctl) ==
    CASE at = "entry" ->
            IF ctl.task = NoTask
              THEN Throw(Err("No active task"), FALSE, loc)
              ELSE AwaitTask("doesLatestTaskCompletionHaveNewChanges", << >>, "pred", TRUE, loc)
      [] at = "pred" ->
            IF r.out = "throw" THEN Throw(r.err, TRUE, loc)
            ELSE IF r.val
              THEN AwaitTask("presentMultifileDiff", << >>, "present", TRUE, loc)
              ELSE AwaitTask("say", <<"No significant changes found to review.">>, "sayNoChanges", TRUE, loc)
      [] at = "present" ->
            IF r.out = "throw" THEN Throw(r.err, TRUE, loc)
            ELSE AwaitTask("getDiffSinceLastCompletion", << >>, "getDiff", TRUE, loc)
      [] at = "getDiff" ->
            IF r.out = "throw"
              THEN AwaitTask("say", <<"Reviewing code changes...">>, "sayProgress", TRUE, loc)
            ELSE AwaitTask("say", <<"Reviewing code changes...">>, "sayProgress", TRUE,
                           [loc EXCEPT !.diffContent = r.val])
      [] at = "sayProgress" ->
            IF r.out = "throw" THEN Throw(r.err, TRUE, loc)
            ELSE AwaitInitTask(reviewPrompt(loc.diffContent), << >>, "initTask", TRUE, loc)
      [] at = "initTask" ->
            IF r.out = "throw" THEN Throw(r.err, TRUE, loc) ELSE Return(loc)
      [] at = "sayNoChanges" ->
            IF r.out = "throw" THEN Throw(r.err, TRUE, loc) ELSE Return(loc)
      [] at = "catch" ->
            AwaitTask("say", ErrorText(r.err), "sayError", FALSE, loc)
      [] at = "sayError" ->
            IF r.out = "throw" THEN Throw(r.err, FALSE, loc) ELSE Return(loc)

reviewCode(at, r, loc, ctl) ==
    CASE at = "entry" ->
            IF ctl.task = NoTask
              THEN Throw(Err("No active task"), FALSE, loc)
              ELSE AwaitTask("doesLatestTaskCompletionHaveNewChanges", << >>, "pred", TRUE, loc)
      [] at = "pred" ->
            IF r.out = "throw" THEN Throw(r.err, TRUE, loc)
            ELSE IF r.val
              THEN AwaitTask("presentMultifileDiff", << >>, "present", TRUE, loc)
              ELSE AwaitTask("say", <<"No significant changes found to review.">>, "sayNoChanges", TRUE, loc)
      [] at = "present" ->
            IF r.out = "throw" THEN Throw(r.err, TRUE, loc)
            ELSE AwaitTask("getDiffSinceLastCompletion", << >>, "getDiff", TRUE, loc)
      [] at = "getDiff" ->
            IF r.out = "throw" THEN Throw(r.err, TRUE, loc)
            ELSE AwaitTask("say", <<"Reviewing code changes...">>, "sayProgress", TRUE,
                           [loc EXCEPT !.diffContent = r.val])
      [] at = "sayProgress" ->
            IF r.out = "throw" THEN Throw(r.err, TRUE, loc)
            ELSE AwaitInitTask(reviewPrompt(loc.diffContent), << >>, "initTask", TRUE, loc)
      [] at = "initTask" ->
            IF r.out = "throw" THEN Throw(r.err, TRUE, loc) ELSE Return(loc)
      [] at = "sayNoChanges" ->
            IF r.out = "throw" THEN Throw(r.err, TRUE, loc) ELSE Return(loc)
      [] at = "catch" ->
            AwaitTask("say", ErrorText(r.err), "sayError", FALSE, loc)
      [] at = "sayError" ->
            IF r.out = "throw" THEN Throw(r.err, FALSE, loc) ELSE Return(loc)

\* ----------------------------------------------- documentCode (diff-based)
documentationPrompt(diffContent) ==
    <<"Analyzing code changes for documentation...\n\n">>
        \o (IF Truthy(diffContent)
              THEN <<DiffIntro, FenceOpen>> \o diffContent.s \o <<FenceClose>>
              ELSE <<FallbackSentence>>)
        \o <<DocumentInstructions>>

documentCode(at, r, loc, ctl) ==
    CASE at = "entry" ->
            IF ctl.task = NoTask
              THEN Throw(Err("No active task"), FALSE, loc)
              ELSE AwaitTask("doesLatestTaskCompletionHaveNewChanges", << >>, "pred", TRUE, loc)
      [] at = "pred" ->
            IF r.out = "throw" THEN Throw(r.err, TRUE, loc)
            ELSE IF r.val
              THEN AwaitTask("presentMultifileDiff", << >>, "present", TRUE, loc)
              ELSE AwaitTask("say", <<"No significant changes found to document.">>, "sayNoChanges", TRUE, loc)
      [] at = "present" ->
            IF r.out = "throw" THEN Throw(r.err, TRUE, loc)
            ELSE AwaitTask("getDiffSinceLastCompletion", << >>, "getDiff", TRUE, loc)
      [] at = "getDiff" ->
            IF r.out = "throw" THEN Throw(r.err, TRUE, loc)
            ELSE AwaitTask("say", <<"Generating documentation for code changes...">>, "sayProgress", TRUE,
                           [loc EXCEPT !.diffContent = r.val])
      [] at = "sayProgress" ->
            IF r.out = "throw" THEN Throw(r.err, TRUE, loc)
            ELSE AwaitInitTask(documentationPrompt(loc.diffContent), << >>, "initTask", TRUE, loc)
      [] at = "initTask" ->
            IF r.out = "throw" THEN Throw(r.err, TRUE, loc) ELSE Return(loc)
      [] at = "sayNoChanges" ->
            IF r.out = "throw" THEN Throw(r.err, TRUE, loc) ELSE Return(loc)
      [] at = "catch" ->
            AwaitTask("say", ErrorText(r.err), "sayError", FALSE, loc)
      [] at = "sayError" ->
            IF r.out = "throw" THEN Throw(r.err, FALSE, loc) ELSE Return(loc)

\* ------------------- generateDiffText (helper declared inside reviewCode)
\* before.split("\n"): the lines of a text; the empty string has one empty line
SplitLines(text) == IF text = << >> THEN <<"">> ELSE text
Includes(lines, line) == \E i \in 1..Len(lines) : lines[i] = line

\* the lines of `lines` that `others` lacks, each as `${mark}${line}\n`
MarkMissing(lines, others, mark) ==
    LET acc[i \in 0..Len(lines)] ==
            IF i = 0 THEN << >>
            ELSE IF ~Includes(others, lines[i]) THEN Append(acc[i - 1], mark \o lines[i] \o "\n")
            ELSE acc[i - 1]
    IN  acc[Len(lines)]

generateDiffText(before, after) ==
    LET beforeLines == SplitLines(before)
        afterLines == SplitLines(after)
        resultText == MarkMissing(beforeLines, afterLines, "- ") \o MarkMissing(afterLines, beforeLines, "+ ")
    IN  IF Len(resultText) > 0 THEN resultText ELSE <<"// No visible changes (might be whitespace only)">>

\* ------------------------------------------------- executeCustomDirection
\* variant: the active-task check left out
executeCustomDirectionUnguarded(at, r, loc, ctl) ==
    CASE at = "entry" ->
            IF ~Truthy(loc.value) THEN Throw(Err("Custom prompt is required"), FALSE, loc)
            ELSE AwaitTask("say", <<"Executing custom direction...">>, "sayNotice", FALSE, loc)
      [] at = "sayNotice" ->
            IF r.out = "throw" THEN Throw(r.err, FALSE, loc)
            ELSE AwaitTask("say", loc.value.s, "sayPrompt", FALSE, loc)
      [] at = "sayPrompt" ->
            IF r.out = "throw" THEN Throw(r.err, FALSE, loc) ELSE Return(loc)

\* variant: only an absent value is refused (request.value === undefined)
executeCustomDirectionUndefinedOnly(at, r, loc, ctl) ==
    CASE at = "entry" ->
            IF ctl.task = NoTask THEN Throw(Err("No active task"), FALSE, loc)
            ELSE IF ~loc.value.def THEN Throw(Err("Custom prompt is required"), FALSE, loc)
            ELSE AwaitTask("say", <<"Executing custom direction...">>, "sayNotice", FALSE, loc)
      [] at = "sayNotice" ->
            IF r.out = "throw" THEN Throw(r.err, FALSE, loc)
            ELSE AwaitTask("say", loc.value.s, "sayPrompt", FALSE, loc)
      [] at = "sayPrompt" ->
            IF r.out = "throw" THEN Throw(r.err, FALSE, loc) ELSE Return(loc)

\* variant: the value wrapped in a template
executeCustomDirectionWrapped(at, r, loc, ctl) ==
    CASE at = "entry" ->
            IF ctl.task = NoTask THEN Throw(Err("No active task"), FALSE, loc)
            ELSE IF ~Truthy(loc.value) THEN Throw(Err("Custom prompt is required"), FALSE, loc)
            ELSE AwaitTask("say", <<"Executing custom direction...">>, "sayNotice", FALSE, loc)
      [] at = "sayNotice" ->
            IF r.out = "throw" THEN Throw(r.err, FALSE, loc)
            ELSE AwaitTask("say", <<"Custom direction: ">> \o loc.value.s, "sayPrompt", FALSE, loc)
      [] at = "sayPrompt" ->
            IF r.out = "throw" THEN Throw(r.err, FALSE, loc) ELSE Return(loc)

executeCustomDirection(at, r, loc, ctl) ==
    CASE at = "entry" ->
            IF ctl.task = NoTask THEN Throw(Err("No active task"), FALSE, loc)
            ELSE IF ~Truthy(loc.value) THEN Throw(Err("Custom prompt is required"), FALSE, loc)
            ELSE AwaitTask("say", <<"Executing custom direction...">>, "sayNotice", FALSE, loc)
      [] at = "sayNotice" ->
            IF r.out = "throw" THEN Throw(r.err, FALSE, loc)
            ELSE AwaitTask("say", loc.value.s, "sayPrompt", FALSE, loc)
      [] at = "sayPrompt" ->
            IF r.out = "throw" THEN Throw(r.err, FALSE, loc) ELSE Return(loc)

\* the other revision of the handler: other notice and error texts
executeCustomDirectionB(at, r, loc, ctl) ==
    CASE at = "entry" ->
            IF ctl.task = NoTask THEN Throw(Err("No active task"), FALSE, loc)
            ELSE IF ~Truthy(loc.value) THEN Throw(Err("Custom direction prompt is required"), FALSE, loc)
            ELSE AwaitTask("say", <<"Processing custom direction...">>, "sayNotice", FALSE, loc)
      [] at = "sayNotice" ->
            IF r.out = "throw" THEN Throw(r.err, FALSE, loc)
            ELSE AwaitTask("say", loc.value.s, "sayPrompt", FALSE, loc)
      [] at = "sayPrompt" ->
            IF r.out = "throw" THEN Throw(r.err, FALSE, loc) ELSE Return(loc)

\* ------------------------------------- reviewCode / documentCode (say-based)
\* the revision that sends the prompt on the current task
reviewCodeSay(at, r, loc, ctl) ==
    CASE at = "entry" ->
            IF ctl.task = NoTask
              THEN Throw(Err("No active task"), FALSE, loc)
              ELSE AwaitTask("say", <<"Analyzing code changes since last completion...">>, "sayAnalyzing", FALSE, loc)
      [] at = "sayAnalyzing" ->
            IF r.out = "throw" THEN Throw(r.err, FALSE, loc)
            ELSE AwaitTask("doesLatestTaskCompletionHaveNewChanges", << >>, "pred", TRUE, loc)
      [] at = "pred" ->
            IF r.out = "throw" THEN Throw(r.err, TRUE, loc)
            ELSE IF r.val
              THEN AwaitTask("say", <<"Reviewing code changes...">>, "sayProgress", TRUE, loc)
              ELSE AwaitTask("say", <<"No significant changes found to review.">>, "sayNoChanges", TRUE, loc)
      [] at = "sayProgress" ->
            IF r.out = "throw" THEN Throw(r.err, TRUE, loc)
            ELSE AwaitTask("say",
                    <<"Review the code changes shown above that were made since the last completion.\n\n",
                      "Focus on:\n1. Potential bugs or logic errors\n2. Type safety issues\n3. Missing error handling\n4. Performance concerns\n5. Security vulnerabilities\n\n",
                      "Reference other code files as needed for context.">>,
                    "sayPrompt", TRUE, loc)
      [] at = "sayPrompt" ->
            IF r.out = "throw" THEN Throw(r.err, TRUE, loc) ELSE Return(loc)
      [] at = "sayNoChanges" ->
            IF r.out = "throw" THEN Throw(r.err, TRUE, loc) ELSE Return(loc)
      [] at = "catch" ->
            AwaitTask("say", ErrorText(r.err), "sayError", FALSE, loc)
      [] at = "sayError" ->
            IF r.out = "throw" THEN Throw(r.err, FALSE, loc) ELSE Return(loc)

documentCodeSay(at, r, loc, ctl) ==
    CASE at = "entry" ->
            IF ctl.task = NoTask
              THEN Throw(Err("No active task"), FALSE, loc)
              ELSE AwaitTask("say", <<"Analyzing code changes for documentation...">>, "sayAnalyzing", FALSE, loc)
      [] at = "sayAnalyzing" ->
            IF r.out = "throw" THEN Throw(r.err, FALSE, loc)
            ELSE AwaitTask("doesLatestTaskCompletionHaveNewChanges", << >>, "pred", TRUE, loc)
      [] at = "pred" ->
            IF r.out = "throw" THEN Throw(r.err, TRUE, loc)
            ELSE IF r.val
              THEN AwaitTask("say", <<"Generating documentation for code changes...">>, "sayProgress", TRUE, loc)
              ELSE AwaitTask("say", <<"No significant changes found to document.">>, "sayNoChanges", TRUE, loc)
      [] at = "sayProgress" ->
            IF r.out = "throw" THEN Throw(r.err, TRUE, loc)
            ELSE AwaitTask("say",
                    <<"Generate documentation for the code changes since the last completion.\n\n",
                      "Create clear, concise documentation that explains:\n1. Purpose of the new code\n2. How it integrates with existing functionality\n3. Key components and their responsibilities\n4. Usage examples where appropriate\n5. Any important considerations or limitations\n\n",
                      "Format the documentation in a way that would be suitable for inclusion in project docs.">>,
                    "sayPrompt", TRUE, loc)
      [] at = "sayPrompt" ->
            IF r.out = "throw" THEN Throw(r.err, TRUE, loc) ELSE Return(loc)
      [] at = "sayNoChanges" ->
            IF r.out = "throw" THEN Throw(r.err, TRUE, loc) ELSE Return(loc)
      [] at = "catch" ->
            AwaitTask("say", ErrorText(r.err), "sayError", FALSE, loc)
      [] at = "sayError" ->
            IF r.out = "throw" THEN Throw(r.err, FALSE, loc) ELSE Return(loc)

\* ------------------------- reviewCode / documentCode (checkpoint-scanning)
\* variant: the scan runs from the start and stops at the first match
findFirstIndex(array, predicate) ==
    LET scan[i \in 0..Len(array)] ==
            IF i >= Len(array) THEN -1
            ELSE IF predicate[array[i + 1]] THEN i
            ELSE scan[i + 1]
    IN  scan[0]

\* JavaScript indices: array[i] is the (i+1)-th element, -1 is "not found"
\* the predicate is a function from messages to BOOLEAN
findLastIndex(array, predicate) ==
    LET scan[i \in -1..(Len(array) - 1)] ==
            IF i < 0 THEN -1
            ELSE IF predicate[array[i + 1]] THEN i
            ELSE scan[i - 1]
    IN  scan[Len(array) - 1]

\* variant: only the say tag is looked at
isCompletionSayOnly == [m \in LogEntries |-> m.say = "completion_result"]

\* (m) => m.say === "completion_result" || m.ask === "completion_result"
isCompletion == [m \in LogEntries |-> m.say = "completion_result" \/ m.ask = "completion_result"]

\* variant: the latest checkpoint_created entry instead of the earliest
findLatestCheckpointCreatedHash(array) ==
    LET hits == {i \in 1..Len(array) : array[i].say = "checkpoint_created"}
    IN  IF hits = {} THEN NoHash
        ELSE array[CHOOSE i \in hits : \A j \in hits : j <= i].lastCheckpointHash

\* array.find((m) => m.say === "checkpoint_created")?.lastCheckpointHash
findCheckpointCreatedHash(array) ==
    LET hits == {i \in 1..Len(array) : array[i].say = "checkpoint_created"}
    IN  IF hits = {} THEN NoHash
        ELSE array[CHOOSE i \in hits : \A j \in hits : i <= j].lastCheckpointHash

\* variant: the search done with array.reverse(), which reverses in place
clineMessagesReversedInPlace(array) == [i \in 1..Len(array) |-> array[Len(array) + 1 - i]]

\* controller.task.clineMessages as the searches leave it: findLastIndex only
\* indexes the array, slice copies it, find only reads it
clineMessagesRead(array) == array

lastCompletionIndex(log) == findLastIndex(log, isCompletion)
prevCompletionIndex(log) == findLastIndex(SubSeq(log, 1, lastCompletionIndex(log)), isCompletion)
prevCheckpointHash(log) ==
    IF prevCompletionIndex(log) >= 0
      THEN log[prevCompletionIndex(log) + 1].lastCheckpointHash
      ELSE findCheckpointCreatedHash(log)

reviewCodeScan(at, r, loc, ctl) ==
    CASE at = "entry" ->
            IF ctl.task = NoTask THEN Throw(Err("No active task"), FALSE, loc)
            ELSE LET log == ctl.msgs[ctl.task]
                     found == [loc EXCEPT !.lastCompletionIndex = lastCompletionIndex(log)]
                     resolved == [found EXCEPT
                                    !.prevCompletionIndex = prevCompletionIndex(log),
                                    !.lastCheckpointHash = log[lastCompletionIndex(log) + 1].lastCheckpointHash,
                                    !.prevCheckpointHash = prevCheckpointHash(log)]
                 IN
              IF found.lastCompletionIndex < 0 THEN Throw(Err("No completion found"), FALSE, found)
              ELSE IF resolved.lastCheckpointHash = NoHash \/ resolved.prevCheckpointHash = NoHash
                THEN Throw(Err("Checkpoint information not available"), FALSE, resolved)
              ELSE AwaitTask("say", <<"Analyzing code changes since last completion...">>, "sayAnalyzing", FALSE, resolved)
      [] at = "sayAnalyzing" ->
            IF r.out = "throw" THEN Throw(r.err, FALSE, loc)
            ELSE AwaitTask("say", <<"Reviewing code changes...">>, "sayProgress", FALSE, loc)
      [] at = "sayProgress" ->
            IF r.out = "throw" THEN Throw(r.err, FALSE, loc)
            ELSE AwaitTask("say",
                    <<"Review the code changes that were made since the last completion.\n        \n        Focus on:\n        1. Potential bugs or logic errors\n        2. Type safety issues\n        3. Missing error handling\n        4. Performance concerns\n        5. Security vulnerabilities\n        \n        Reference other code files as needed for context.">>,
                    "sayPrompt", FALSE, loc)
      [] at = "sayPrompt" ->
            IF r.out = "throw" THEN Throw(r.err, FALSE, loc) ELSE Return(loc)

documentCodeScan(at, r, loc, ctl) ==
    CASE at = "entry" ->
            IF ctl.task = NoTask THEN Throw(Err("No active task"), FALSE, loc)
            ELSE LET log == ctl.msgs[ctl.task]
                     found == [loc EXCEPT !.lastCompletionIndex = lastCompletionIndex(log)]
                     resolved == [found EXCEPT
                                    !.prevCompletionIndex = prevCompletionIndex(log),
                                    !.lastCheckpointHash = log[lastCompletionIndex(log) + 1].lastCheckpointHash,
                                    !.prevCheckpointHash = prevCheckpointHash(log)]
                 IN
              IF found.lastCompletionIndex < 0 THEN Throw(Err("No completion found"), FALSE, found)
              ELSE IF resolved.lastCheckpointHash = NoHash \/ resolved.prevCheckpointHash = NoHash
                THEN Throw(Err("Checkpoint information not available"), FALSE, resolved)
              ELSE AwaitTask("say", <<"Analyzing code changes since last completion...">>, "sayAnalyzing", FALSE, resolved)
      [] at = "sayAnalyzing" ->
            IF r.out = "throw" THEN Throw(r.err, FALSE, loc)
            ELSE AwaitTask("say", <<"Generating documentation for code changes...">>, "sayProgress", FALSE, loc)
      [] at = "sayProgress" ->
            IF r.out = "throw" THEN Throw(r.err, FALSE, loc)
            ELSE AwaitTask("say",
                    <<"Generate documentation for the code changes that were made since the last completion.\n        \n        Create clear, concise documentation that explains:\n        1. Purpose of the new code\n        2. How it integrates with existing functionality\n        3. Key components and their responsibilities\n        4. Usage examples where appropriate\n        5. Any important considerations or limitations\n        \n        Format the documentation in a way that would be suitable for inclusion in project docs.">>,
                    "sayPrompt", FALSE, loc)
      [] at = "sayPrompt" ->
            IF r.out = "throw" THEN Throw(r.err, FALSE, loc) ELSE Return(loc)

\* ------------------------------------------------------ dispatch machinery
MainHandlers ==
    {"reviewCode", "documentCode", "reviewCodeSay", "documentCodeSay",
     "executeCustomDirection", "executeCustomDirectionB"}
ScanHandlers == {"reviewCodeScan", "documentCodeScan"}

HandlerStep(h, at, r, loc, ctl) ==
    CASE h = "reviewCode" -> reviewCode(at, r, loc, ctl)
      [] h = "documentCode" -> documentCode(at, r, loc, ctl)
      [] h = "reviewCodeSay" -> reviewCodeSay(at, r, loc, ctl)
      [] h = "documentCodeSay" -> documentCodeSay(at, r, loc, ctl)
      [] h = "reviewCodeScan" -> reviewCodeScan(at, r, loc, ctl)
      [] h = "documentCodeScan" -> documentCodeScan(at, r, loc, ctl)
      [] h = "executeCustomDirection" -> executeCustomDirection(at, r, loc, ctl)
      [] h = "executeCustomDirectionB" -> executeCustomDirectionB(at, r, loc, ctl)

Ok(v) == [out |-> "ok", val |-> v, err |-> NoErr]
Threw(e) == [out |-> "throw", val |-> Undefined, err |-> e]

\* controller.task.f(...) with controller.task undefined throws a TypeError
OnTask(c, ctl) ==
    IF c.k = "call" /\ c.on = "task" /\ ctl.task = NoTask THEN Throw(TypeErr, c.try, c.loc) ELSE c

\* The handler resumed at `at` with outcome r, run up to its next await, return
\* or rejection: a throw inside the try block enters the catch clause.
RunHandler(h, at, r, loc, ctl) ==
    LET c == OnTask(HandlerStep(h, at, r, loc, ctl), ctl)
    IN  IF c.k = "throw" /\ c.try
          THEN OnTask(HandlerStep(h, "catch", Threw(c.err), c.loc, ctl), ctl)
          ELSE c

\* the dispatch slot after the handler ran to command c; t is controller.task then
Effect(p, c, t, issued, returned) ==
    /\ pc' = [pc EXCEPT ![p] = c.next]
    /\ locals' = [locals EXCEPT ![p] = c.loc]
    /\ calls' = [calls EXCEPT ![p] =
          IF c.k = "call"
            THEN Append(issued, [op |-> c.op, task |-> IF c.on = "task" THEN t ELSE NoTask,
                                 text |-> c.text, images |-> c.images])
            ELSE issued]
    /\ rets' = [rets EXCEPT ![p] = returned]
    /\ result' = [result EXCEPT ![p] =
          CASE c.k = "call" -> Pending
            [] c.k = "return" -> Empty
            [] c.k = "throw" -> Rejected(c.err)]
    /\ UNCHANGED accountVars
    /\ UNCHANGED ui

\* the awaited call of slot p completed with outcome r; the controller is (t, msgs)
Continue(p, r, t, msgs) ==
    /\ Effect(p, RunHandler(handler[p], pc[p], r, locals[p], [task |-> t, msgs |-> msgs]),
              t, calls[p], Append(rets[p], r))
    /\ UNCHANGED <<handler, ndispatch, entryTask>>

LastCall(p) == calls[p][Len(calls[p])]
Awaiting(p, op) == pc[p] \notin {"idle", "done"} /\ LastCall(p).op = op

\* the constants of a handler that it has not assigned yet
Unassigned == 0 - 2
NoLocals ==
    [value |-> Undefined, diffContent |-> Undefined,
     lastCompletionIndex |-> Unassigned, prevCompletionIndex |-> Unassigned,
     lastCheckpointHash |-> NoHash, prevCheckpointHash |-> NoHash]
\* EmptyRequest carries no value; StringRequest carries value
RequestsOf(h) ==
    IF h \in {"executeCustomDirection", "executeCustomDirectionB"} THEN RequestValues ELSE {Undefined}

\* ----------------------------------------------------------------- actions
\* The caller invokes handler h with request value v: the handler runs up to
\* its first await (or rejects at once).
Invoke(p, h, v) ==
    /\ pc[p] = "idle"
    /\ ndispatch < MaxDispatches
    /\ v \in RequestsOf(h)
    /\ ndispatch' = ndispatch + 1
    /\ handler' = [handler EXCEPT ![p] = h]
    /\ entryTask' = [entryTask EXCEPT ![p] = task]
    /\ Effect(p, RunHandler(h, "entry", Ok(Undefined), [NoLocals EXCEPT !.value = v],
                            [task |-> task, msgs |-> clineMessages]),
              task, << >>, << >>)
    /\ clineMessages' =
          IF h \in ScanHandlers /\ task # NoTask
            THEN [clineMessages EXCEPT ![task] = clineMessagesRead(@)]
            ELSE clineMessages
    /\ UNCHANGED <<task, nextTaskId>>

\* variant: the caller starts a dispatch whenever a slot is free
DispatchUnqueued(p, h, v) == Invoke(p, h, v)

\* the caller admits one dispatch at a time, in its first free slot
Dispatch(p, h, v) ==
    /\ \A q \in Procs : pc[q] = "idle" /\ p <= q
    /\ Invoke(p, h, v)

\* the caller receives the response or the rejection; the slot is free again
Respond(p) ==
    /\ pc[p] = "done"
    /\ pc' = [pc EXCEPT ![p] = "idle"]
    /\ handler' = [handler EXCEPT ![p] = "none"]
    /\ locals' = [locals EXCEPT ![p] = NoLocals]
    /\ calls' = [calls EXCEPT ![p] = << >>]
    /\ rets' = [rets EXCEPT ![p] = << >>]
    /\ result' = [result EXCEPT ![p] = Pending]
    /\ entryTask' = [entryTask EXCEPT ![p] = NoTask]
    /\ UNCHANGED <<task, clineMessages, nextTaskId, ndispatch>>
    /\ UNCHANGED accountVars
    /\ UNCHANGED ui

\* task.say(type, text) resolves: the message is on the log of the task it was called on
SayReturns(p) ==
    /\ Awaiting(p, "say")
    /\ clineMessages' = [clineMessages EXCEPT ![LastCall(p).task] = Append(@, SayEntry("text", NoHash))]
    /\ UNCHANGED <<task, nextTaskId>>
    /\ Continue(p, Ok(Undefined), task, clineMessages')

\* task.doesLatestTaskCompletionHaveNewChanges() resolves to b
PredReturns(p, b) ==
    /\ Awaiting(p, "doesLatestTaskCompletionHaveNewChanges")
    /\ UNCHANGED <<task, clineMessages, nextTaskId>>
    /\ Continue(p, Ok(b), task, clineMessages)

\* task.presentMultifileDiff(ts, flag) resolves
PresentReturns(p) ==
    /\ Awaiting(p, "presentMultifileDiff")
    /\ UNCHANGED <<task, clineMessages, nextTaskId>>
    /\ Continue(p, Ok(Undefined), task, clineMessages)

\* task.getDiffSinceLastCompletion() resolves to the diff text d (or undefined)
GetDiffReturns(p, d) ==
    /\ Awaiting(p, "getDiffSinceLastCompletion")
    /\ UNCHANGED <<task, clineMessages, nextTaskId>>
    /\ Continue(p, Ok(d), task, clineMessages)

\* a call on the task rejects with e
TaskCallThrows(p, e) ==
    /\ pc[p] \notin {"idle", "done"}
    /\ LastCall(p).op # "initTask"
    /\ UNCHANGED <<task, clineMessages, nextTaskId>>
    /\ Continue(p, Threw(e), task, clineMessages)

\* controller.initTask(prompt, images) resolves: a new task is the active task
InitTaskReturns(p) ==
    /\ Awaiting(p, "initTask")
    /\ task' = nextTaskId
    /\ nextTaskId' = nextTaskId + 1
    /\ UNCHANGED clineMessages
    /\ Continue(p, Ok(Undefined), task', clineMessages)

\* controller.initTask rejects with e, before or after it cleared the old task
InitTaskThrows(p, e, cleared) ==
    /\ Awaiting(p, "initTask")
    /\ task' = IF cleared THEN NoTask ELSE task
    /\ UNCHANGED <<clineMessages, nextTaskId>>
    /\ Continue(p, Threw(e), task', clineMessages)

\* ------------------------------ ClineAccountService, FirebaseAuthProvider
\* JavaScript values of the responses: undefined, and objects known by name
JsUndefined == "undefined"
Objects == {"user u1", "balance u1", "usages u1", "payments u1"}
\* obj.field
Get(obj, field) ==
    CASE obj = "user u1" /\ field = "id" -> "u1"
      [] obj = "usages u1" /\ field = "items" -> "usage items of u1"
      [] obj = "payments u1" /\ field = "paymentTransactions" -> "payment transactions of u1"
      [] OTHER -> JsUndefined

\* getAuthToken(): string | null
NullToken == "<null>"
IdTokens == {"id token of u1"}
\* `Bearer ${clineAccountAuthToken}`: null is written out as "null"
Authorization(token) == "Bearer " \o (IF token = NullToken THEN "null" ELSE token)

baseUrl == "https://core-api.staging.int.cline.bot"

\* AxiosResponse<{ data?: T; error: string; success: boolean }>
Statuses == {199, 200, 299, 300}
Response(status, data, success) ==
    [status |-> status, hasBody |-> TRUE, data |-> data, success |-> success, error |-> "quota exceeded"]
NoBodyResponse(status) ==
    [status |-> status, hasBody |-> FALSE, data |-> JsUndefined, success |-> FALSE, error |-> JsUndefined]
NoResponse == NoBodyResponse(0)
Responses ==
    {Response(st, d, ok) : st \in Statuses, d \in Objects \cup {JsUndefined}, ok \in BOOLEAN}
        \cup {NoBodyResponse(st) : st \in Statuses}

Returned(v) == [out |-> "return", val |-> v, err |-> NoErr]
Raised(e) == [out |-> "throw", val |-> JsUndefined, err |-> e]

\* authenticatedRequest after axios.get resolved: the checks of the response
authenticatedRequest(endpoint, response) ==
    IF response.status < 200 \/ response.status >= 300
      THEN Raised(Err("Request to " \o endpoint \o " failed with status " \o ToString(response.status)))
    ELSE IF ~response.hasBody \/ response.data = JsUndefined
      THEN Raised(Err("Invalid response from " \o endpoint \o " API"))
    ELSE IF ~response.success
      THEN Raised(Err("API error: " \o response.error))
    ELSE Returned(response.data)

RPCs == {"fetchBalanceRPC", "fetchUsageTransactionsRPC", "fetchPaymentTransactionsRPC"}
\* `/api/v1/users/${me.id}/balance` and its siblings
perUserEndpoint(fn, me) ==
    "/api/v1/users/" \o Get(me, "id") \o
        (CASE fn = "fetchBalanceRPC" -> "/balance"
           [] fn = "fetchUsageTransactionsRPC" -> "/usages"
           [] fn = "fetchPaymentTransactionsRPC" -> "/payments")
\* return data / data.items / data.paymentTransactions
fetchReturn(fn, data) ==
    CASE fn = "fetchBalanceRPC" -> data
      [] fn = "fetchUsageTransactionsRPC" -> Get(data, "items")
      [] fn = "fetchPaymentTransactionsRPC" -> Get(data, "paymentTransactions")

NoReply == [k |-> "pending", val |-> JsUndefined, err |-> NoErr]
ResolvedWith(v) == [k |-> "resolved", val |-> v, err |-> NoErr]
RejectedWith(e) == [k |-> "rejected", val |-> JsUndefined, err |-> e]

\* variant: the catch clause passes the error on
rpcCatchRethrow(fn, error) == RejectedWith(error)

\* catch (error) { console.error(...); return undefined }
rpcCatch(fn, error) == ResolvedWith(JsUndefined)

IdleAccount ==
    [fn |-> "none", pc |-> "idle", stage |-> 0, endpoint |-> "", token |-> "unset", me |-> JsUndefined,
     requests |-> << >>, areqs |-> << >>, result |-> NoReply]

\* authenticatedRequest(endpoint) up to the await the outside world decides:
\* getAuthToken reads getAuth().currentUser; without a user the token is null
\* and axios.get is issued at once, with a user user.getIdToken() is awaited
StartRequest(a, endpoint, user) ==
    IF user = "none"
      THEN [a EXCEPT !.endpoint = endpoint, !.token = NullToken, !.pc = "axios",
                     !.requests = Append(@, [url |-> baseUrl \o endpoint,
                                             authorization |-> Authorization(NullToken)])]
      ELSE [a EXCEPT !.endpoint = endpoint, !.token = "unset", !.pc = "getIdToken"]

\* the RPC after its authenticatedRequest ended with outcome o
AfterRequest(a, response, o, user) ==
    LET done == [a EXCEPT !.areqs = Append(@, [endpoint |-> a.endpoint, token |-> a.token,
                                               response |-> response, out |-> o.out,
                                               val |-> o.val, err |-> o.err])]
    IN  IF o.out = "throw"
          THEN [done EXCEPT !.pc = "done", !.result = rpcCatch(a.fn, o.err)]
        ELSE IF a.stage = 1
          THEN StartRequest([done EXCEPT !.me = o.val, !.stage = 2], perUserEndpoint(a.fn, o.val), user)
        ELSE [done EXCEPT !.pc = "done", !.result = ResolvedWith(fetchReturn(a.fn, o.val))]

InitialAuth(user) ==
    [currentUser |-> user, firebase |-> "idle", promise |-> "none", logged |-> "none", unhandled |-> NoErr]
\* async signOut(): the sign-out is started, its promise chain neither awaited
\* nor returned, and the function's own promise resolves
signOut(a) ==
    [a EXCEPT !.firebase = "pending", !.promise = "resolved", !.logged = "none", !.unhandled = NoErr]
\* .then(() => console.log("User signed out successfully."))
signOutThen(a) == [a EXCEPT !.firebase = "signedOut", !.currentUser = "none", !.logged = "success"]
\* .catch((error) => { logMessage; logException; throw error }): the chain's
\* promise rejects, and nothing holds it
signOutCatch(a, error) == [a EXCEPT !.firebase = "failed", !.logged = "error", !.unhandled = error]

\* private static instance: undefined until getInstance constructs the service;
\* objects are numbered in the order of their construction
NoInstance == 0
NoService == [instance |-> NoInstance, constructed |-> 0, returned |-> << >>]

\* variant: every call constructs a service
getInstanceAlwaysNew(s) ==
    [s EXCEPT !.constructed = @ + 1, !.instance = s.constructed + 1,
              !.returned = Append(@, s.constructed + 1)]

\* if (!ClineAccountService.instance) { instance = new ClineAccountService() }
\* return ClineAccountService.instance
getInstance(s) ==
    LET held == IF s.instance = NoInstance
                  THEN [s EXCEPT !.constructed = @ + 1, !.instance = s.constructed + 1]
                  ELSE s
    IN  [held EXCEPT !.returned = Append(@, held.instance)]

\* a caller calls ClineAccountService.getInstance()
GetInstance ==
    /\ Len(service.returned) < MaxGetInstance
    /\ service' = getInstance(service)
    /\ UNCHANGED <<account, auth>>
    /\ UNCHANGED dispatcherVars
    /\ UNCHANGED ui

\* a caller calls one of the RPCs
CallRPC(fn) ==
    /\ account.pc = "idle"
    /\ account' = StartRequest([IdleAccount EXCEPT !.fn = fn, !.stage = 1], "/api/v1/users/me",
                               auth.currentUser)
    /\ UNCHANGED auth
    /\ UNCHANGED service
    /\ UNCHANGED dispatcherVars
    /\ UNCHANGED ui

\* user.getIdToken() resolves: axios.get is issued with the token
GetIdTokenReturns(token) ==
    /\ account.pc = "getIdToken"
    /\ account' = [account EXCEPT !.token = token, !.pc = "axios",
                      !.requests = Append(@, [url |-> baseUrl \o account.endpoint,
                                              authorization |-> Authorization(token)])]
    /\ UNCHANGED auth
    /\ UNCHANGED service
    /\ UNCHANGED dispatcherVars
    /\ UNCHANGED ui

\* user.getIdToken() rejects
GetIdTokenThrows(e) ==
    /\ account.pc = "getIdToken"
    /\ account' = AfterRequest(account, NoResponse, Raised(e), auth.currentUser)
    /\ UNCHANGED auth
    /\ UNCHANGED service
    /\ UNCHANGED dispatcherVars
    /\ UNCHANGED ui

\* axios.get resolves with a response
AxiosReturns(response) ==
    /\ account.pc = "axios"
    /\ account' = AfterRequest(account, response, authenticatedRequest(account.endpoint, response),
                               auth.currentUser)
    /\ UNCHANGED auth
    /\ UNCHANGED service
    /\ UNCHANGED dispatcherVars
    /\ UNCHANGED ui

\* axios.get rejects (network failure)
AxiosThrows(e) ==
    /\ account.pc = "axios"
    /\ account' = AfterRequest(account, NoResponse, Raised(e), auth.currentUser)
    /\ UNCHANGED auth
    /\ UNCHANGED service
    /\ UNCHANGED dispatcherVars
    /\ UNCHANGED ui

\* the caller of the RPC has its answer
RPCAnswered ==
    /\ account.pc = "done"
    /\ account' = IdleAccount
    /\ UNCHANGED auth
    /\ UNCHANGED service
    /\ UNCHANGED dispatcherVars
    /\ UNCHANGED ui

\* a caller calls FirebaseAuthProvider.signOut()
SignOut ==
    /\ auth.firebase # "pending"
    /\ auth' = signOut(auth)
    /\ UNCHANGED account
    /\ UNCHANGED service
    /\ UNCHANGED dispatcherVars
    /\ UNCHANGED ui

\* Firebase's signOut(auth) resolves
FirebaseSignOutResolves ==
    /\ auth.firebase = "pending"
    /\ auth' = signOutThen(auth)
    /\ UNCHANGED account
    /\ UNCHANGED service
    /\ UNCHANGED dispatcherVars
    /\ UNCHANGED ui

\* Firebase's signOut(auth) rejects with e
FirebaseSignOutRejects(e) ==
    /\ auth.firebase = "pending"
    /\ auth' = signOutCatch(auth, e)
    /\ UNCHANGED account
    /\ UNCHANGED service
    /\ UNCHANGED dispatcherVars
    /\ UNCHANGED ui

\* ---------------------------------------------- CompletionDirectionButtons
NARROW_THRESHOLD == 345
WIDE_THRESHOLD == 700
\* the ids of DIRECTION_BUTTONS
DIRECTION_BUTTONS == {"review", "document", "custom", "newTask"}
customOptions ==
    {[id |-> "custom_1", prompt |-> "Generate unit tests for the code you just wrote"],
     [id |-> "custom_2", prompt |-> "Provide a detailed explanation of how the code works"]}
\* entry.contentRect.width: the widths around the thresholds
Widths ==
    {NARROW_THRESHOLD - 1, NARROW_THRESHOLD, NARROW_THRESHOLD + 1,
     WIDE_THRESHOLD - 1, WIDE_THRESHOLD, WIDE_THRESHOLD + 1}
NotObserved == 0 - 1

Event(kind, id) == [kind |-> kind, id |-> id]
\* useState(false) three times, disabled = false, no resize observed, no callback made
InitialUi ==
    [showCustomOptions |-> FALSE, hideLabels |-> FALSE, horizontalLayout |-> FALSE,
     disabled |-> FALSE, width |-> NotObserved, selected |-> << >>, event |-> Event("mount", "")]

\* the parent's callback is called with (optionId, customPrompt)
onOptionSelected(u, optionId, customPrompt) ==
    [u EXCEPT !.selected = Append(@, [id |-> optionId, prompt |-> customPrompt])]

\* variant: the thresholds themselves belong to the narrow and the wide range
onResizeInclusive(u, width) ==
    [u EXCEPT !.width = width,
              !.hideLabels = width <= NARROW_THRESHOLD,
              !.horizontalLayout = width >= WIDE_THRESHOLD]

\* the ResizeObserver callback for an entry of the given width
onResize(u, width) ==
    [u EXCEPT !.width = width,
              !.hideLabels = width < NARROW_THRESHOLD,
              !.horizontalLayout = width > WIDE_THRESHOLD]

handleButtonClick(u, buttonId) ==
    IF buttonId = "custom"
      THEN [u EXCEPT !.showCustomOptions = ~u.showCustomOptions]
      ELSE onOptionSelected(u, buttonId, JsUndefined)

\* variant: the menu stays open after a selection
handleCustomOptionSelectKeepsMenu(u, option) == onOptionSelected(u, option.id, option.prompt)

handleCustomOptionSelect(u, option) ==
    [onOptionSelected(u, option.id, option.prompt) EXCEPT !.showCustomOptions = FALSE]

\* renderButton: disabled={disabled || (isCustom && customOptions.length === 0)}
isDisabled(u, buttonId) == u.disabled \/ (buttonId = "custom" /\ customOptions = {})

\* the user clicks a button; a disabled button delivers no click
ClickButton(buttonId) ==
    /\ ~isDisabled(ui, buttonId)
    /\ Len(ui.selected) < MaxSelections
    /\ ui' = [handleButtonClick(ui, buttonId) EXCEPT !.event = Event("click", buttonId)]
    /\ UNCHANGED accountVars
    /\ UNCHANGED dispatcherVars

\* the user clicks an entry of the custom options menu, which is rendered
\* while showCustomOptions holds
ClickOption(option) ==
    /\ ui.showCustomOptions
    /\ Len(ui.selected) < MaxSelections
    /\ ui' = [handleCustomOptionSelect(ui, option) EXCEPT !.event = Event("select", option.id)]
    /\ UNCHANGED accountVars
    /\ UNCHANGED dispatcherVars

\* the container is resized: the observer reports its width
Resize(width) ==
    /\ ui' = [onResize(ui, width) EXCEPT !.event = Event("resize", "")]
    /\ UNCHANGED accountVars
    /\ UNCHANGED dispatcherVars

\* the parent renders the component with another value of disabled
SetDisabled(b) ==
    /\ ui.disabled # b
    /\ ui' = [ui EXCEPT !.disabled = b, !.event = Event("props", "")]
    /\ UNCHANGED accountVars
    /\ UNCHANGED dispatcherVars

\* ---------------------------------------------------------- specifications
InitSlots ==
    /\ nextTaskId = 2
    /\ ndispatch = 0
    /\ handler = [p \in Procs |-> "none"]
    /\ pc = [p \in Procs |-> "idle"]
    /\ locals = [p \in Procs |-> NoLocals]
    /\ calls = [p \in Procs |-> << >>]
    /\ rets = [p \in Procs |-> << >>]
    /\ result = [p \in Procs |-> Pending]
    /\ entryTask = [p \in Procs |-> NoTask]
    /\ account = IdleAccount
    /\ auth = InitialAuth("user")
    /\ service = NoService
    /\ ui = InitialUi

\* the diff-based, say-based and custom handlers over one controller
Init ==
    /\ task \in {NoTask, 1}
    /\ clineMessages = [t \in TaskIds |-> << >>]
    /\ InitSlots

Next ==
    \E p \in Procs :
        \/ \E h \in MainHandlers, v \in RequestValues : Dispatch(p, h, v)
        \/ Respond(p)
        \/ SayReturns(p)
        \/ \E b \in BOOLEAN : PredReturns(p, b)
        \/ PresentReturns(p)
        \/ \E d \in DiffValues : GetDiffReturns(p, d)
        \/ \E e \in Thrown : TaskCallThrows(p, e)
        \/ InitTaskReturns(p)
        \/ \E e \in Thrown, cleared \in BOOLEAN : InitTaskThrows(p, e, cleared)

Spec == Init /\ [][Next]_vars

\* the checkpoint-scanning handlers over every short message log
InitScan ==
    /\ task \in {NoTask, 1}
    /\ clineMessages \in {[t \in TaskIds |-> IF t = 1 THEN log ELSE << >>] : log \in SeqsUpTo(LogEntries, MaxLog)}
    /\ InitSlots

NextScan ==
    \E p \in Procs :
        \/ \E h \in ScanHandlers : Dispatch(p, h, Undefined)
        \/ Respond(p)
        \/ SayReturns(p)
        \/ \E e \in Thrown : TaskCallThrows(p, e)

SpecScan == InitScan /\ [][NextScan]_vars

\* the account service and the auth provider
InitAccount ==
    /\ task = NoTask
    /\ clineMessages = [t \in TaskIds |-> << >>]
    /\ InitSlots

NextAccount ==
    \/ \E fn \in RPCs : CallRPC(fn)
    \/ \E token \in IdTokens : GetIdTokenReturns(token)
    \/ \E e \in Thrown : GetIdTokenThrows(e)
    \/ \E response \in Responses : AxiosReturns(response)
    \/ \E e \in Thrown : AxiosThrows(e)
    \/ RPCAnswered
    \/ SignOut
    \/ FirebaseSignOutResolves
    \/ \E e \in Thrown : FirebaseSignOutRejects(e)
    \/ GetInstance

SpecAccount == InitAccount /\ [][NextAccount]_vars

\* the completion direction buttons under clicks, resizes and prop changes
InitButtons ==
    /\ task = NoTask
    /\ clineMessages = [t \in TaskIds |-> << >>]
    /\ InitSlots

NextButtons ==
    \/ \E buttonId \in DIRECTION_BUTTONS : ClickButton(buttonId)
    \/ \E option \in customOptions : ClickOption(option)
    \/ \E width \in Widths : Resize(width)
    \/ \E b \in BOOLEAN : SetDisabled(b)

SpecButtons == InitButtons /\ [][NextButtons]_vars

\* ------------------------------------------------------------------ claims
DiffHandlers == {"reviewCode", "documentCode"}
CustomHandlers == {"executeCustomDirection", "executeCustomDirectionB"}
Started(p) == pc[p] # "idle"
Finished(p) == pc[p] = "done"
IssuedOps(p) == {calls[p][i].op : i \in 1..Len(calls[p])}
Has(text, fragment) == \E i \in 1..Len(text) : text[i] = fragment
HasBlock(text, block) ==
    \E i \in 0..(Len(text) - Len(block)) : SubSeq(text, i + 1, i + Len(block)) = block
NoChangesText(h) ==
    IF h = "reviewCode" THEN <<"No significant changes found to review.">>
    ELSE <<"No significant changes found to document.">>
MissingPromptError(h) ==
    IF h = "executeCustomDirection" THEN Err("Custom prompt is required")
    ELSE Err("Custom direction prompt is required")
\* the change predicate of a diff-based dispatch returned b
PredReturned(p, b) ==
    /\ handler[p] \in DiffHandlers
    /\ Len(rets[p]) >= 1
    /\ rets[p][1].out = "ok"
    /\ rets[p][1].val = b

\* C1: a handler invoked while the controller has no active task has rejected
\* with the error "No active task" as soon as it was invoked, and has issued no
\* call on the task runtime (no say, change predicate, diff presentation, diff
\* retrieval or initTask).
C1_NoActiveTaskRejects ==
    \A p \in Procs :
        (Started(p) /\ entryTask[p] = NoTask) =>
            /\ Finished(p)
            /\ result[p] = Rejected(Err("No active task"))
            /\ calls[p] = << >>
            /\ rets[p] = << >>

C1_Witness ==
    \E p \in Procs :
        /\ Finished(p)
        /\ entryTask[p] = NoTask
        /\ handler[p] = "executeCustomDirection"
        /\ Truthy(locals[p].value)
        /\ result[p].k = "rejected"

\* C2: executeCustomDirection invoked with an active task and an empty or absent
\* value has rejected with the missing-prompt error at once; the dispatch made
\* no say call (no call at all).
C2_MissingPromptRejects ==
    \A p \in Procs :
        (handler[p] \in CustomHandlers /\ Started(p) /\ entryTask[p] # NoTask
            /\ (~locals[p].value.def \/ locals[p].value.s = << >>)) =>
            /\ Finished(p)
            /\ result[p] = Rejected(MissingPromptError(handler[p]))
            /\ calls[p] = << >>

C2_Witness ==
    \E p \in Procs :
        /\ handler[p] = "executeCustomDirection"
        /\ Finished(p)
        /\ entryTask[p] # NoTask
        /\ locals[p].value = Str(<< >>)
        /\ result[p].k = "rejected"

\* C3: in the diff-based reviewCode and documentCode, once the change predicate
\* has returned false the dispatch never calls presentMultifileDiff,
\* getDiffSinceLastCompletion or initTask; its next call is say("text", the
\* no-changes notice) on the active task, and when that say has resolved the
\* handler has returned the Empty response with nothing else called.
C3_NoChangesShortCircuit ==
    \A p \in Procs :
        PredReturned(p, FALSE) =>
            /\ IssuedOps(p) \cap {"presentMultifileDiff", "getDiffSinceLastCompletion", "initTask"} = {}
            /\ Len(calls[p]) >= 2
            /\ calls[p][2] = [op |-> "say", task |-> entryTask[p],
                              text |-> NoChangesText(handler[p]), images |-> << >>]
            /\ (Len(rets[p]) >= 2 /\ rets[p][2].out = "ok") =>
                    /\ Finished(p)
                    /\ result[p] = Empty
                    /\ Len(calls[p]) = 2

C3_Witness ==
    \E p \in Procs :
        /\ PredReturned(p, FALSE)
        /\ handler[p] = "reviewCode"
        /\ Finished(p)
        /\ result[p] = Empty
        /\ Len(rets[p]) = 2

\* some awaited call of the dispatch rejected
SomeCallThrew(p) == \E i \in 1..Len(rets[p]) : rets[p][i].out = "throw"
\* the error notices of the dispatch that reached the task channel
ErrorSays(p) ==
    {i \in 1..Len(rets[p]) :
        /\ calls[p][i].op = "say"
        /\ calls[p][i].text[1] = "Error analyzing code changes: "
        /\ rets[p][i].out = "ok"}

\* C4 (as claimed): in the diff-based reviewCode and documentCode, a dispatch in
\* which a call of the try block threw (change check, diff presentation, diff
\* retrieval, progress notice, initTask) ends with exactly one
\* 'Error analyzing code changes: ...' message on the task channel and with the
\* Empty response, never with a rejection.
C4_ExceptionsAbsorbed ==
    \A p \in Procs :
        (handler[p] \in DiffHandlers /\ Finished(p) /\ SomeCallThrew(p)) =>
            /\ result[p] = Empty
            /\ Cardinality(ErrorSays(p)) = 1

\* C5 (as claimed): in the diff-based reviewCode and documentCode, a dispatch in
\* which changes exist and presentMultifileDiff failed still retrieves the diff
\* and submits the prompt with initTask.
C5_PresentFailureDoesNotBlock ==
    \A p \in Procs :
        (PredReturned(p, TRUE) /\ Finished(p) /\ Len(rets[p]) >= 2 /\ rets[p][2].out = "throw") =>
            /\ calls[p][2].op = "presentMultifileDiff"
            /\ "getDiffSinceLastCompletion" \in IssuedOps(p)
            /\ "initTask" \in IssuedOps(p)

PromptOf(h, diffContent) ==
    IF h = "reviewCode" THEN reviewPrompt(diffContent) ELSE documentationPrompt(diffContent)
AllCallsResolved(p) == \A i \in 1..Len(rets[p]) : rets[p][i].out = "ok"
InitTaskCalls(p) == {i \in 1..Len(calls[p]) : calls[p][i].op = "initTask"}

\* C6: a diff-based reviewCode/documentCode dispatch in which changes exist and
\* no call failed has called initTask exactly once, as its last call, with the
\* composed prompt and an empty attachment list, and has not passed the prompt
\* to say; an executeCustomDirection dispatch never calls initTask, and one that
\* returned has sent the notice and then the prompt with say on the task that
\* was active.
C6_NewTaskVersusCurrentTask ==
    \A p \in Procs :
        /\ (PredReturned(p, TRUE) /\ Finished(p) /\ AllCallsResolved(p)) =>
                /\ result[p] = Empty
                /\ InitTaskCalls(p) = {Len(calls[p])}
                /\ LastCall(p).text = PromptOf(handler[p], locals[p].diffContent)
                /\ LastCall(p).images = << >>
                /\ \A i \in 1..Len(calls[p]) :
                        calls[p][i].op = "say" => calls[p][i].text # LastCall(p).text
        /\ handler[p] \in CustomHandlers =>
                /\ InitTaskCalls(p) = {}
                /\ (Finished(p) /\ result[p] = Empty) =>
                        /\ Len(calls[p]) = 2
                        /\ \A i \in 1..2 : calls[p][i].op = "say" /\ calls[p][i].task = entryTask[p]
                        /\ calls[p][2].text = locals[p].value.s

C6_Witness ==
    \E p \in Procs :
        /\ handler[p] = "documentCode"
        /\ PredReturned(p, TRUE)
        /\ Finished(p)
        /\ AllCallsResolved(p)
        /\ task # entryTask[p]

\* C7: the second say of an executeCustomDirection dispatch, the one that
\* submits the prompt, carries exactly request.value, a non-empty text: nothing
\* before it, after it or in place of it; a dispatch that returned has made no
\* other call after it.
C7_CustomPromptVerbatim ==
    \A p \in Procs :
        (handler[p] \in CustomHandlers /\ Len(calls[p]) >= 2) =>
            /\ Truthy(locals[p].value)
            /\ calls[p][2].op = "say"
            /\ calls[p][2].text = locals[p].value.s
            /\ Len(calls[p]) = 2

C7_Witness ==
    \E p \in Procs :
        /\ handler[p] = "executeCustomDirectionB"
        /\ Finished(p)
        /\ result[p] = Empty
        /\ Len(locals[p].value.s) = MaxPromptLen
        /\ Has(locals[p].value.s, "Review the code changes.\n\n")

\* C8: the prompt a diff-based reviewCode/documentCode passes to initTask has
\* exactly one of two forms: when getDiffSinceLastCompletion returned a
\* non-empty text, the fenced block holding that text unchanged and no fallback
\* sentence; when it returned nothing (undefined or the empty string), the
\* fallback sentence and no fence.
C8_DiffOrFallback ==
    \A p \in Procs :
        (handler[p] \in DiffHandlers /\ InitTaskCalls(p) # {}) =>
            LET prompt == calls[p][CHOOSE i \in InitTaskCalls(p) : TRUE].text
                diffContent == rets[p][3].val
            IN  /\ calls[p][3].op = "getDiffSinceLastCompletion"
                /\ IF diffContent.def /\ diffContent.s # << >>
                     THEN /\ HasBlock(prompt, <<FenceOpen>> \o diffContent.s \o <<FenceClose>>)
                          /\ ~Has(prompt, FallbackSentence)
                     ELSE /\ Has(prompt, FallbackSentence)
                          /\ ~Has(prompt, FenceOpen)
                          /\ ~Has(prompt, FenceClose)

C8_Witness ==
    \E p \in Procs :
        /\ handler[p] = "reviewCode"
        /\ InitTaskCalls(p) # {}
        /\ rets[p][3].val.def
        /\ Len(rets[p][3].val.s) = MaxDiffLen

\* C9 (as claimed): when the diff store returns the empty string, the Review
\* prompt carries the 'no visible changes' text in its diff section and differs
\* from the prompt composed when the diff is unavailable.
C9_EmptyDiffDistinguished ==
    \A p \in Procs :
        (handler[p] = "reviewCode" /\ InitTaskCalls(p) # {} /\ rets[p][3].val = Str(<< >>)) =>
            LET prompt == calls[p][CHOOSE i \in InitTaskCalls(p) : TRUE].text
            IN  /\ HasBlock(prompt, generateDiffText(<< >>, << >>))
                /\ prompt # reviewPrompt(Undefined)

\* C10 (as claimed): for a message log without completion_result entries the
\* latest-completion search finds none and the checkpoint-scanning dispatch does
\* not fail: it returns the Empty response without calling the diff store.
C10_NoCompletionShortCircuits ==
    \A p \in Procs :
        (handler[p] \in ScanHandlers /\ Finished(p) /\ entryTask[p] # NoTask
            /\ \A i \in 1..Len(clineMessages[entryTask[p]]) : ~isCompletion[clineMessages[entryTask[p]][i]]) =>
            /\ lastCompletionIndex(clineMessages[entryTask[p]]) = -1
            /\ result[p] = Empty
            /\ "getDiffSinceLastCompletion" \notin IssuedOps(p)

\* a checkpoint-scanning dispatch with an active task that found a completion
Resolved(p) ==
    /\ handler[p] \in ScanHandlers
    /\ Started(p)
    /\ entryTask[p] # NoTask
    /\ locals[p].lastCompletionIndex >= 0

\* C11 (as claimed): when the hash of the baseline checkpoint or of the current
\* checkpoint is missing, the checkpoint-scanning dispatch does not throw because
\* of it: the diff counts as unavailable and the dispatch goes on to its says.
C11_MissingHashUnavailable ==
    \A p \in Procs :
        (Resolved(p)
            /\ (locals[p].lastCheckpointHash = NoHash \/ locals[p].prevCheckpointHash = NoHash)) =>
            /\ result[p] # Rejected(Err("Checkpoint information not available"))
            /\ calls[p] # << >>

\* a checkpoint-scanning dispatch that was invoked with an active task
Scanned(p) == handler[p] \in ScanHandlers /\ Started(p) /\ entryTask[p] # NoTask
\* the positions (from 1) of the completion and checkpoint_created entries of a log
Completions(log) ==
    {i \in 1..Len(log) : log[i].say = "completion_result" \/ log[i].ask = "completion_result"}
Checkpoints(log) == {i \in 1..Len(log) : log[i].say = "checkpoint_created"}
Max(S) == CHOOSE i \in S : \A j \in S : j <= i
Min(S) == CHOOSE i \in S : \A j \in S : i <= j

\* C12: for a log with exactly one completion entry and a checkpoint_created
\* entry before it, the baseline a checkpoint-scanning dispatch resolves is the
\* hash of the earliest checkpoint_created entry of the log, and the dispatch
\* does not fail for want of a prior completion (it rejects at entry only if
\* that entry or the completion carries no hash); when a completion precedes
\* the latest one, the baseline is the hash of the nearest preceding completion.
C12_BaselineResolution ==
    \A p \in Procs :
        Scanned(p) =>
            LET log == clineMessages[entryTask[p]]
                comps == Completions(log)
                cps == Checkpoints(log)
            IN  /\ (Cardinality(comps) = 1 /\ \E i \in cps : i < Max(comps)) =>
                    /\ locals[p].prevCheckpointHash = log[Min(cps)].lastCheckpointHash
                    /\ result[p] # Rejected(Err("No completion found"))
                    /\ (log[Min(cps)].lastCheckpointHash # NoHash
                            /\ log[Max(comps)].lastCheckpointHash # NoHash) => calls[p] # << >>
                /\ Cardinality(comps) >= 2 =>
                    locals[p].prevCheckpointHash = log[Max(comps \ {Max(comps)})].lastCheckpointHash

\* one completion after two checkpoint_created entries with different hashes,
\* and (in another dispatch) three completions
C12_Witness ==
    \E p \in Procs :
        /\ Scanned(p)
        /\ calls[p] # << >>
        /\ LET log == clineMessages[entryTask[p]]
           IN  /\ Cardinality(Completions(log)) = 1
               /\ Cardinality(Checkpoints(log)) = 2
               /\ Max(Checkpoints(log)) < Max(Completions(log))
               /\ log[1].lastCheckpointHash # log[2].lastCheckpointHash

\* C13: the completion searches of a checkpoint-scanning dispatch match an entry
\* iff its say or its ask is completion_result: the latest-completion search
\* finds the last such entry of the log, the prior-completion search the last
\* such entry before it, and each finds none (-1) when there is no such entry.
C13_SayOrAskCompletion ==
    \A p \in Procs :
        Scanned(p) =>
            LET log == clineMessages[entryTask[p]]
                comps == Completions(log)
                before == comps \ {Max(comps)}
            IN  /\ comps = {} => locals[p].lastCompletionIndex = -1
                /\ comps # {} =>
                    /\ locals[p].lastCompletionIndex = Max(comps) - 1
                    /\ before = {} => locals[p].prevCompletionIndex = -1
                    /\ before # {} => locals[p].prevCompletionIndex = Max(before) - 1

\* the latest completion is an ask entry, the one before it a say entry, and an
\* entry that is no completion follows them
C13_Witness ==
    \E p \in Procs :
        /\ Scanned(p)
        /\ LET log == clineMessages[entryTask[p]]
           IN  /\ Len(log) >= 3
               /\ log[1].say = "completion_result"
               /\ log[2].ask = "completion_result"
               /\ log[3].say = "checkpoint_created"
               /\ locals[p].lastCompletionIndex = 1
               /\ locals[p].prevCompletionIndex = 0

\* C14 (as claimed): a handler rejects only for a precondition violation: a
\* dispatch that was rejected found no active task or (executeCustomDirection)
\* no prompt, and had issued no call; every failure of a task-runtime call is
\* absorbed.
C14_OnlyPreconditionsRaised ==
    \A p \in Procs :
        (handler[p] \in MainHandlers /\ result[p].k = "rejected") =>
            /\ calls[p] = << >>
            /\ \/ result[p].err = Err("No active task") /\ entryTask[p] = NoTask
               \/ /\ handler[p] \in CustomHandlers
                  /\ result[p].err = MissingPromptError(handler[p])
                  /\ ~Truthy(locals[p].value)

\* the call of position i of slot p has completed without failure
CallResolved(p, i) == i <= Len(rets[p]) /\ rets[p][i].out = "ok"

\* C15: within a diff-based reviewCode/documentCode dispatch a call is issued
\* only when the call before it has completed; diff presentation and diff
\* retrieval are issued only after the change predicate has returned true;
\* initTask is issued only after getDiffSinceLastCompletion, issued earlier in
\* the same dispatch, has completed without failure.
C15_StepsOrdered ==
    \A p \in Procs :
        handler[p] \in DiffHandlers =>
            /\ Len(rets[p]) >= Len(calls[p]) - 1
            /\ \A i \in 1..Len(calls[p]) :
                /\ calls[p][i].op \in {"presentMultifileDiff", "getDiffSinceLastCompletion"} =>
                    \E j \in 1..(i - 1) :
                        /\ calls[p][j].op = "doesLatestTaskCompletionHaveNewChanges"
                        /\ CallResolved(p, j)
                        /\ rets[p][j].val
                /\ calls[p][i].op = "initTask" =>
                    \E j \in 1..(i - 1) :
                        /\ calls[p][j].op = "getDiffSinceLastCompletion"
                        /\ CallResolved(p, j)

\* a dispatch that went through predicate, presentation, retrieval and
\* submission
C15_Witness ==
    \E p \in Procs :
        /\ handler[p] \in DiffHandlers
        /\ Finished(p)
        /\ result[p] = Empty
        /\ [i \in 1..Len(calls[p]) |-> calls[p][i].op] =
              <<"doesLatestTaskCompletionHaveNewChanges", "presentMultifileDiff",
                "getDiffSinceLastCompletion", "say", "initTask">>

IsPrefix(s, t) == Len(s) <= Len(t) /\ SubSeq(t, 1, Len(s)) = s

\* C17: no step of a checkpoint-scanning dispatch alters, removes or reorders an
\* entry of a task's message log (a log only grows at its end, by the says),
\* and a slot whose dispatch has been answered holds nothing of it: the next
\* dispatch starts from the log alone.
C17_LogReadOnly ==
    [][/\ \A t \in TaskIds : IsPrefix(clineMessages[t], clineMessages'[t])
       /\ \A p \in Procs :
            pc'[p] = "idle" =>
                /\ locals'[p] = NoLocals
                /\ calls'[p] = << >>
                /\ rets'[p] = << >>
                /\ result'[p] = Pending]_vars

\* a second dispatch running on a full log of different entries, to which the
\* first dispatch added its messages
C17_Witness ==
    \E p \in Procs :
        /\ Scanned(p)
        /\ ndispatch = 2
        /\ calls[p] # << >>
        /\ LET log == clineMessages[entryTask[p]]
           IN  /\ Len(log) > MaxLog
               /\ log[1] # log[2]
               /\ log[2] # log[3]

\* a response that carries a payload: status in 200..299, a body, data, success
Succeeded(response) ==
    /\ response.status \in 200..299
    /\ response.hasBody
    /\ response.data # JsUndefined
    /\ response.success
\* both requests of the RPC in progress were answered with a payload
BothSucceeded ==
    /\ Len(account.areqs) = 2
    /\ \A i \in 1..2 : account.areqs[i].response # NoResponse /\ Succeeded(account.areqs[i].response)

\* C18: an RPC never rejects; once it has ended, its value is the data of the
\* per-user response (the whole payload, its items or its paymentTransactions)
\* if both requests were answered with a payload, and undefined if the token
\* lookup, the /users/me request or the per-user request failed; the per-user
\* request is issued only after the /users/me request returned a payload.
C18_RPCNeverRejects ==
    /\ account.result.k # "rejected"
    /\ account.pc = "done" =>
        /\ account.result.k = "resolved"
        /\ BothSucceeded =>
            LET data == account.areqs[2].response.data
            IN  account.result.val =
                    CASE account.fn = "fetchBalanceRPC" -> data
                      [] account.fn = "fetchUsageTransactionsRPC" -> Get(data, "items")
                      [] account.fn = "fetchPaymentTransactionsRPC" -> Get(data, "paymentTransactions")
        /\ ~BothSucceeded => account.result.val = JsUndefined
    /\ \A i \in 1..Len(account.requests) :
        account.requests[i].url # baseUrl \o "/api/v1/users/me" =>
            /\ i = 2
            /\ Len(account.areqs) >= 1
            /\ account.areqs[1].out = "return"
            /\ Succeeded(account.areqs[1].response)
    /\ (Len(account.areqs) >= 1 /\ account.areqs[1].out = "throw") =>
        /\ account.pc = "done"
        /\ Len(account.requests) <= 1

\* fetchUsageTransactionsRPC returned the items of the per-user response
C18_Witness ==
    /\ account.pc = "done"
    /\ account.fn = "fetchUsageTransactionsRPC"
    /\ BothSucceeded
    /\ account.result = ResolvedWith("usage items of u1")
    /\ account.requests[2].url = baseUrl \o "/api/v1/users/u1/usages"

\* C19 (as claimed): an authenticatedRequest made when no auth token was found
\* threw, and one that returned the payload had a token, a status in 200..299,
\* a payload and success = true.
C19_RequestThrowsWithoutToken ==
    \A i \in 1..Len(account.areqs) :
        LET q == account.areqs[i]
        IN  /\ q.token = NullToken => q.out = "throw"
            /\ q.out = "return" =>
                /\ q.token \in IdTokens
                /\ Succeeded(q.response)
                /\ q.val = q.response.data

\* C20 (as claimed): the promise of signOut() is resolved only once the Firebase
\* sign-out has completed, and is rejected when the Firebase sign-out failed.
C20_SignOutAwaited ==
    /\ auth.promise = "resolved" => auth.firebase = "signedOut"
    /\ auth.firebase = "failed" => auth.promise = "rejected"

\* C21: after any sequence of getInstance calls every call has returned the
\* same object, which is the one the class holds, and getInstance has run the
\* constructor at most once (exactly once as soon as a call was made).
C21_Singleton ==
    /\ \A i, j \in 1..Len(service.returned) : service.returned[i] = service.returned[j]
    /\ \A i \in 1..Len(service.returned) :
        service.returned[i] = service.instance /\ service.instance # NoInstance
    /\ service.constructed <= 1
    /\ service.returned # << >> => service.constructed = 1

\* getInstance was called as often as the model admits
C21_Witness ==
    /\ Len(service.returned) = MaxGetInstance
    /\ service.constructed = 1

\* C22: once a resize was observed the layout follows the thresholds: a width
\* below 345 gives icon-only mode, a width from 345 to 700 (both included) the
\* vertical layout with both flags false, a width above 700 the horizontal
\* layout; hideLabels and horizontalLayout are never both true.
C22_LayoutThresholds ==
    /\ ~(ui.hideLabels /\ ui.horizontalLayout)
    /\ ui.width # NotObserved =>
        /\ ui.width < 345 => (ui.hideLabels /\ ~ui.horizontalLayout)
        /\ (ui.width >= 345 /\ ui.width <= 700) => (~ui.hideLabels /\ ~ui.horizontalLayout)
        /\ ui.width > 700 => (ui.horizontalLayout /\ ~ui.hideLabels)

\* a resize to exactly 700
C22_Witness ==
    /\ ui.event.kind = "resize"
    /\ ui.width = 700
    /\ ~ui.horizontalLayout

\* C23 (as claimed): no step taken while disabled is true calls onOptionSelected.
C23_DisabledBlocksSelection ==
    [][ui.disabled => ui'.selected = ui.selected]_vars

\* C24: the menu starts closed; a click on Custom toggles the menu and calls
\* nothing; a click on another button calls onOptionSelected once with the
\* button's id and no prompt and leaves the menu as it is; selecting a menu
\* option calls onOptionSelected once with the option's id and prompt and
\* closes the menu; resizes and prop changes touch neither.
C24_CustomMenu ==
    [][/\ ui.event.kind = "mount" => ~ui.showCustomOptions
       /\ (ui'.event.kind = "click" /\ ui'.event.id = "custom") =>
            /\ ui'.showCustomOptions = ~ui.showCustomOptions
            /\ ui'.selected = ui.selected
       /\ (ui'.event.kind = "click" /\ ui'.event.id # "custom") =>
            /\ ui'.selected = Append(ui.selected, [id |-> ui'.event.id, prompt |-> JsUndefined])
            /\ ui'.showCustomOptions = ui.showCustomOptions
       /\ ui'.event.kind = "select" =>
            /\ \E option \in customOptions :
                /\ option.id = ui'.event.id
                /\ ui'.selected = Append(ui.selected, [id |-> option.id, prompt |-> option.prompt])
            /\ ~ui'.showCustomOptions
       /\ ui'.event.kind \in {"resize", "props"} =>
            /\ ui'.selected = ui.selected
            /\ ui'.showCustomOptions = ui.showCustomOptions]_vars

\* the menu was opened, an option selected, and the menu opened again
C24_Witness ==
    /\ ui.event = Event("click", "custom")
    /\ ui.showCustomOptions
    /\ Len(ui.selected) = 1
    /\ ui.selected[1].id = "custom_2"

\* (m) => m.say === "checkpoint_created"
isCheckpointCreated == [m \in LogEntries |-> m.say = "checkpoint_created"]

\* C25: findLastIndex(array, predicate) is the greatest index whose element
\* satisfies the predicate, and -1 when no element does (the empty array
\* included); the prior-completion index a dispatch resolves is -1 or an index
\* below its latest-completion index.
C25_FindLastIndex ==
    /\ findLastIndex(<< >>, isCompletion) = -1
    /\ \A p \in Procs :
        Scanned(p) =>
            LET log == clineMessages[entryTask[p]]
            IN  /\ \A predicate \in {isCompletion, isCheckpointCreated} :
                    LET hits == {i \in 1..Len(log) : predicate[log[i]]}
                    IN  findLastIndex(log, predicate) = IF hits = {} THEN -1 ELSE Max(hits) - 1
                /\ locals[p].lastCompletionIndex = findLastIndex(log, isCompletion)
                /\ locals[p].lastCompletionIndex >= 0 =>
                    \/ locals[p].prevCompletionIndex = -1
                    \/ /\ locals[p].prevCompletionIndex >= 0
                       /\ locals[p].prevCompletionIndex < locals[p].lastCompletionIndex

\* completions at both ends of a log of three entries, another entry between
C25_Witness ==
    \E p \in Procs :
        /\ Scanned(p)
        /\ LET log == clineMessages[entryTask[p]]
           IN  /\ Len(log) >= 3
               /\ isCompletion[log[1]] /\ ~isCompletion[log[2]] /\ isCompletion[log[3]]
               /\ locals[p].lastCompletionIndex = 2
               /\ locals[p].prevCompletionIndex = 0

C27_SaysOnEntryTask ==
    \A p \in Procs :
        (handler[p] \in DiffHandlers \cup {"reviewCodeSay"} /\ Started(p) /\ entryTask[p] # NoTask) =>
            /\ \A i \in 1..Len(calls[p]) :
                calls[p][i].op = "say" => calls[p][i].task = entryTask[p]
            /\ result[p] # Rejected(TypeErr)

====
